---------------------------- MODULE Spec2Model ----------------------------
(***************************************************************************)
(* EC2CronScheduler (Script/lambda_function.py): the policy evaluator,     *)
(* the retry executor, the batch mutator, the region worker and the        *)
(* orchestrator (lambda_handler), as a state machine.                      *)
(*                                                                         *)
(* Python values.  A str whose characters matter (the WorksOnSchedule tag, *)
(* which is lower-cased) is a sequence of one-character strings; any other *)
(* str is a TLA+ string.  An f-string is the sequence of its pieces.  The  *)
(* result of dict.get is <<>> for None and <<v>> for the value v.          *)
(***************************************************************************)
EXTENDS Integers, Sequences, FiniteSets, TLC

VARIABLES
  evals,     \* evaluate_instance calls made so far: [instance, now, result]
  pc,        \* where lambda_handler is
  describe,  \* how each describe_regions call ended
  regions,   \* lambda_handler's regions (the list describe_regions gave)
  now,       \* lambda_handler's current_time
  fleet,     \* the cloud: region -> the pages describe_instances lists
  workers,   \* the read pool: region -> the process_region future
  results,   \* lambda_handler's results
  sched,     \* how many entries of results the second loop has gone through
  joined,    \* the write pool's futures the last loop has gone through
  log,       \* the lines lambda_handler has logged
  tasks,     \* the write pool's futures, in submission order
  faults     \* mutating calls that have failed so far

runVars == <<pc, describe, regions, now, fleet, workers, results, sched, joined, log>>

vars == <<evals, runVars, tasks, faults>>

-----------------------------------------------------------------------------
(* Bounds of the model *)

\* evaluate_instance calls in one behaviour of SpecEval
MaxEvals == 2

\* longest identifier list handed to a Batch Mutator in SpecBatch
MaxIds == 120

\* mutating calls the remote service fails in one behaviour
MaxFaults == 5

\* instances in one region
MaxInst == 2

\* instances on one page of describe_instances
PageSize == 1
MaxMovers == 2

-----------------------------------------------------------------------------
(* Python helpers *)

None == "None"

\* dict.get(key): <<>> is None
Get(d, key) == IF key \in DOMAIN d THEN <<d[key]>> ELSE <<>>

\* one character of str.lower()
LowerChar(c) ==
  CASE c = "T" -> "t"
    [] c = "R" -> "r"
    [] c = "U" -> "u"
    [] c = "E" -> "e"
    [] c = "F" -> "f"
    [] c = "A" -> "a"
    [] c = "L" -> "l"
    [] c = "S" -> "s"
    [] c = "Y" -> "y"
    [] OTHER -> c

\* str.lower()
Lower(s) == [i \in 1..Len(s) |-> LowerChar(s[i])]

\* the literal 'true'
StrTrue == <<"t", "r", "u", "e">>

-----------------------------------------------------------------------------
(* croniter, the library evaluate_instance calls.  A call returns True or  *)
(* False or raises; what it does is a function of its arguments.  One      *)
(* expression stands for each way the two calls can end.                   *)

Times == {"01-01 00:00", "06-15 12:30"}

ExprEveryMinute == "* * * * *"
ExprNewYear     == "0 0 1 1 *"
ExprBadField    == "61 * * * *"
ExprNotCron     == "not a cron"
ExprValidRaises == "<is_valid raises>"
ExprMatchRaises == "<match raises>"

Exprs == {ExprEveryMinute, ExprNewYear, ExprBadField, ExprNotCron,
          ExprValidRaises, ExprMatchRaises}

\* croniter.is_valid(expression): "True", "False" or "raise"
croniter_is_valid(expression) ==
  CASE expression \in {ExprEveryMinute, ExprNewYear, ExprMatchRaises} -> "True"
    [] expression = ExprValidRaises -> "raise"
    [] OTHER -> "False"

\* croniter.match(expression, testdate): "True", "False" or "raise"
croniter_match(expression, testdate) ==
  CASE expression = ExprEveryMinute -> "True"
    [] expression = ExprNewYear ->
         IF testdate = "01-01 00:00" THEN "True" ELSE "False"
    [] OTHER -> "raise"

\* str(e) of the exception a croniter call raised
ErrorText(call, expression) == <<"croniter error in ", call>>

-----------------------------------------------------------------------------
(* evaluate_instance *)

\* instance.get('Tags', [])
InstanceTags(instance) ==
  IF "Tags" \in DOMAIN instance THEN instance.Tags ELSE <<>>

\* {tag['Key']: tag['Value'] for tag in ...}: the last tag of a key wins
TagsDict(tagList) ==
  [k \in {tagList[i].Key : i \in 1..Len(tagList)} |->
     LET last == CHOOSE i \in 1..Len(tagList) :
                   /\ tagList[i].Key = k
                   /\ \A j \in 1..Len(tagList) : tagList[j].Key = k => j <= i
     IN tagList[last].Value]

\* a plausible slip: any non-empty tag value enables the schedule
not_enabled_truthy(works_on_schedule) ==
  works_on_schedule = <<>> \/ works_on_schedule[1] = <<>>

\* works_on_schedule is None or works_on_schedule.lower() != 'true'
not_enabled(works_on_schedule) ==
  works_on_schedule = <<>> \/ Lower(works_on_schedule[1]) # StrTrue

\* working_expression is None or working_expression == ''
no_expression(working_expression) ==
  working_expression = <<>> \/ working_expression[1] = ""

msg_not_enabled(instance_id) ==
  <<"Skipping instance ", instance_id,
    ": 'WorksOnSchedule' tag is missing or not true.">>

msg_no_expression(instance_id) ==
  <<"Skipping instance ", instance_id,
    ": 'WorkingExpression' tag is missing or empty.">>

msg_start(instance_id) ==
  <<"Starting instance ", instance_id,
    ": Current time matches cron expression.">>

msg_stop(instance_id) ==
  <<"Stopping instance ", instance_id,
    ": Current time does not match cron expression.">>

\* a plausible slip: the message does not quote the expression
msg_invalid_unquoted(instance_id, working_expression) ==
  <<"Skipping instance ", instance_id, ": Invalid cron expression.">>

msg_invalid(instance_id, working_expression) ==
  <<"Skipping instance ", instance_id, ": Invalid cron expression '",
    working_expression, "'.">>

msg_error(instance_id, text) ==
  <<"Error evaluating instance ", instance_id, ": ">> \o text

\* a plausible slip: the two branches of the match test swapped
match_result_swapped(instance_id, matched) ==
  IF matched = "True"
  THEN <<"stop", msg_stop(instance_id)>>
  ELSE <<"start", msg_start(instance_id)>>

\* the if/else on croniter.match's answer (a call that returned)
match_result(instance_id, matched) ==
  IF matched = "True"
  THEN <<"start", msg_start(instance_id)>>
  ELSE <<"stop", msg_stop(instance_id)>>

\* the try block
evaluate_expression(instance_id, working_expression, current_time) ==
  LET valid == croniter_is_valid(working_expression) IN
  IF valid = "raise"
  THEN <<None, msg_error(instance_id, ErrorText("is_valid", working_expression))>>
  ELSE IF valid = "True"
  THEN LET matched == croniter_match(working_expression, current_time) IN
       IF matched = "raise"
       THEN <<None, msg_error(instance_id, ErrorText("match", working_expression))>>
       ELSE match_result(instance_id, matched)
  ELSE <<None, msg_invalid(instance_id, working_expression)>>

\* evaluate_instance(instance, current_time) -> <<action, message>>
evaluate_instance(instance, current_time) ==
  LET instance_id == instance.InstanceId
      tags == TagsDict(InstanceTags(instance))
      works_on_schedule == Get(tags, "WorksOnSchedule")
      working_expression == Get(tags, "WorkingExpression")
  IN IF not_enabled(works_on_schedule)
     THEN <<None, msg_not_enabled(instance_id)>>
     ELSE IF no_expression(working_expression)
     THEN <<None, msg_no_expression(instance_id)>>
     ELSE evaluate_expression(instance_id, working_expression[1], current_time)

-----------------------------------------------------------------------------
(* The instances the model evaluates *)

\* values of the WorksOnSchedule tag
EnabledValues ==
  { StrTrue,
    <<"T", "R", "U", "E">>,
    <<"T", "r", "u", "e">>,
    <<"f", "a", "l", "s", "e">>,
    <<"y", "e", "s">>,
    <<"t", "r", "u", "e", " ">>,
    <<>> }

\* values of the WorkingExpression tag
ExpressionValues == Exprs \cup {""}

Tag(k, v) == [Key |-> k, Value |-> v]

\* the tag lists: each of the two tags absent or present
TagLists ==
  {<<>>}
  \cup {<<Tag("WorksOnSchedule", w)>> : w \in EnabledValues}
  \cup {<<Tag("WorkingExpression", x)>> : x \in ExpressionValues}
  \cup {<<Tag("WorksOnSchedule", w), Tag("WorkingExpression", x)>> :
          w \in EnabledValues, x \in ExpressionValues}

\* an instance as describe_instances gives it; one without tags has no 'Tags'
Instance(id, tagList) ==
  IF tagList = <<>>
  THEN [InstanceId |-> id]
  ELSE [InstanceId |-> id, Tags |-> tagList]


-----------------------------------------------------------------------------
(* SpecEval: evaluate_instance applied to any instance at any time *)

EvalInstances == {Instance("i-0a1", tl) : tl \in TagLists}

Idle ==
  /\ pc = "idle"
  /\ describe = <<>>
  /\ joined = {}
  /\ log = <<>>
  /\ regions = <<>>
  /\ now = "unset"
  /\ fleet = <<>>
  /\ workers = <<>>
  /\ results = <<>>
  /\ sched = 0

InitEval ==
  /\ Idle
  /\ evals = <<>>
  /\ tasks = <<>>
  /\ faults = 0

Evaluate ==
  /\ Len(evals) < MaxEvals
  /\ \E instance \in EvalInstances, current_time \in Times :
       evals' = Append(evals, [instance |-> instance, now |-> current_time,
                               result |-> evaluate_instance(instance, current_time)])
  /\ UNCHANGED <<runVars, tasks, faults>>

NextEval == Evaluate

SpecEval == InitEval /\ [][NextEval]_vars

-----------------------------------------------------------------------------
(* exponential_backoff and the Batch Mutators *)

max_retries == 5
base_delay == 1
max_delay == 32
batch_size == 50
read_pool_size == 10
write_pool_size == 20

Min(a, b) == IF a < b THEN a ELSE b

\* random.uniform(0, 1), in milliseconds
Jitters == {0, 1000}

\* the exception that attempt `attempt` of the call for offset i raises
ClientError(t, i, attempt) == [error |-> "ClientError", task |-> t, i |-> i, attempt |-> attempt]

\* the response that attempt returns
Response(t, i, attempt) == [response |-> "ok", task |-> t, i |-> i, attempt |-> attempt]

\* a plausible slip: one retry fewer
may_retry_short(attempt) == attempt < max_retries - 2

\* attempt < max_retries - 1
may_retry(attempt) == attempt < max_retries - 1

\* a plausible slip: the delay grows by one second, not by doubling
sleep_time_linear(attempt, jitter) ==
  Min(base_delay * (attempt + 1), max_delay) * 1000 + jitter

\* a plausible slip: the exponent is one too high
sleep_time_next_power(attempt, jitter) ==
  Min(base_delay * 2 ^ (attempt + 1), max_delay) * 1000 + jitter

\* min(base_delay * 2 ** attempt, max_delay) + random.uniform(0, 1), in ms
sleep_time(attempt, jitter) ==
  Min(base_delay * 2 ^ attempt, max_delay) * 1000 + jitter

\* a plausible slip: the slice is one short
chunk_short(instance_ids, i) ==
  SubSeq(instance_ids, i + 1, Min(i + batch_size - 1, Len(instance_ids)))

\* instance_ids[i:i+50]
chunk(instance_ids, i) ==
  SubSeq(instance_ids, i + 1, Min(i + batch_size, Len(instance_ids)))

\* the future of executor.submit(batch_start_instances | batch_stop_instances,
\* ec2_client, instance_ids); ec2_client is the client of region `client`
NewTask(client, func, instance_ids) ==
  [ client |-> client, func |-> func, instance_ids |-> instance_ids,
    state |-> "pending",     \* pending, running, calling, sleeping, done, failed
    i |-> 0,                 \* the for loop's i
    attempt |-> 0,           \* exponential_backoff's attempt
    sleep |-> 0,             \* the sleep_time being slept, in ms
    made |-> 0,              \* calls made by the exponential_backoff in progress
    fails |-> 0,             \* calls of it that raised
    logged |-> <<>>,         \* the log lines of it: <<level, attempt>>
    delays |-> <<>>,         \* the sleeps of it, in ms, without their jitter
    last |-> <<>>,           \* how the last finished exponential_backoff ended
    exc |-> <<>>,            \* the exception the future holds
    calls |-> <<>>,          \* every mutating call issued: its InstanceIds
    answered |-> 0 ]         \* the calls that have returned or raised

\* the task holds a thread of the pool
Active(t) == tasks[t].state \in {"running", "calling", "sleeping"}

\* a plausible slip: the pool takes one thread more
write_pool_free_wide ==
  Cardinality({u \in 1..Len(tasks) : Active(u)}) < write_pool_size + 1

\* ThreadPoolExecutor(max_workers=20): a thread is idle or can be added
write_pool_free ==
  Cardinality({u \in 1..Len(tasks) : Active(u)}) < write_pool_size

\* a worker thread of the write pool takes the task: the work queue is
\* first in, first out
TaskStart(t) ==
  /\ tasks[t].state = "pending"
  /\ \A u \in 1..(t - 1) : tasks[u].state # "pending"
  /\ write_pool_free
  /\ tasks' = [tasks EXCEPT ![t].state =
                 IF Len(tasks[t].instance_ids) > 0 THEN "running" ELSE "done"]
  /\ UNCHANGED <<evals, runVars, faults>>

\* a plausible slip: the loop skips every other chunk
next_offset_skipping(i) == i + 2 * batch_size

\* range(0, len(instance_ids), 50): the offset after i
next_offset(i) == i + batch_size

\* func(**kwargs) is called with the chunk at i
CallIssue(t) ==
  LET T == tasks[t] IN
  /\ T.state = "running"
  /\ tasks' = [tasks EXCEPT ![t] =
       [T EXCEPT !.calls = Append(@, chunk(T.instance_ids, T.i)),
                 !.made = @ + 1,
                 !.state = "calling"]]
  /\ UNCHANGED <<evals, runVars, faults>>

\* func(**kwargs) returns: exponential_backoff returns it, the loop goes on
CallReturns(t) ==
  LET T == tasks[t]
      next_i == next_offset(T.i)
  IN /\ T.state = "calling"
     /\ tasks' = [tasks EXCEPT ![t] =
          [T EXCEPT !.answered = @ + 1,
                    !.last = <<[outcome |-> "returned",
                                value |-> Response(t, T.i, T.attempt),
                                tries |-> T.made, fails |-> T.fails,
                                logged |-> T.logged, delays |-> T.delays]>>,
                    !.i = next_i,
                    !.attempt = 0, !.made = 0, !.fails = 0,
                    !.logged = <<>>, !.delays = <<>>,
                    !.state = IF next_i < Len(T.instance_ids)
                              THEN "running" ELSE "done"]]
     /\ UNCHANGED <<evals, runVars, faults>>

\* func(**kwargs) raises: sleep and retry, or log and re-raise
CallRaises(t) ==
  LET T == tasks[t]
      e == ClientError(t, T.i, T.attempt)
  IN /\ T.state = "calling"
     /\ faults < MaxFaults
     /\ faults' = faults + 1
     /\ IF may_retry(T.attempt)
        THEN \E jitter \in Jitters :
             tasks' = [tasks EXCEPT ![t] =
               [T EXCEPT !.answered = @ + 1,
                         !.fails = @ + 1,
                         !.logged = Append(@, <<"warning", T.attempt>>),
                         !.delays = Append(@, sleep_time(T.attempt, jitter) - jitter),
                         !.sleep = sleep_time(T.attempt, jitter),
                         !.state = "sleeping"]]
        ELSE tasks' = [tasks EXCEPT ![t] =
               [T EXCEPT !.answered = @ + 1,
                         !.last = <<[outcome |-> "raised", value |-> e,
                                     tries |-> T.made, fails |-> T.fails + 1,
                                     logged |-> Append(T.logged, <<"error", T.attempt>>),
                                     delays |-> T.delays]>>,
                         !.made = 0, !.fails = 0,
                         !.logged = <<>>, !.delays = <<>>,
                         !.exc = <<e>>,
                         !.state = "failed"]]
     /\ UNCHANGED <<evals, runVars>>

\* time.sleep(sleep_time) returns: the next attempt
Wake(t) ==
  /\ tasks[t].state = "sleeping"
  /\ tasks' = [tasks EXCEPT ![t].state = "running", ![t].sleep = 0,
                            ![t].attempt = @ + 1]
  /\ UNCHANGED <<evals, runVars, faults>>

TaskStep ==
  \/ \E t \in 1..Len(tasks) : TaskStart(t)
  \/ \E t \in 1..Len(tasks) : CallIssue(t)
  \/ \E t \in 1..Len(tasks) : CallReturns(t)
  \/ \E t \in 1..Len(tasks) : CallRaises(t)
  \/ \E t \in 1..Len(tasks) : Wake(t)

-----------------------------------------------------------------------------
(* SpecBatch: one Batch Mutator on any list of up to MaxIds identifiers, or
   the Batch Mutators of two regions side by side, two chunks each *)

InitBatch ==
  /\ Idle
  /\ evals = <<>>
  /\ faults = 0
  /\ \/ \E n \in 0..MaxIds, func \in {"start_instances", "stop_instances"} :
          tasks = <<NewTask("r", func, [j \in 1..n |-> j])>>
     \/ tasks = <<NewTask("r", "start_instances", [j \in 1..(batch_size + 1) |-> j]),
                  NewTask("q", "stop_instances", [j \in 1..(batch_size + 1) |-> j])>>

NextBatch == TaskStep

SpecBatch == InitBatch /\ [][NextBatch]_vars

-----------------------------------------------------------------------------
(* The cloud of the whole run *)

AllRegions == <<"us-east-1", "eu-west-1">>

\* the tag lists of a region's instances, in rotation
KindTags ==
  << <<Tag("WorksOnSchedule", StrTrue), Tag("WorkingExpression", ExprEveryMinute)>>,
     <<Tag("WorksOnSchedule", <<"T", "R", "U", "E">>), Tag("WorkingExpression", ExprNewYear)>>,
     <<>>,
     <<Tag("WorksOnSchedule", StrTrue), Tag("WorkingExpression", ExprBadField)>> >>

\* the n instances of the k-th region, in listing order
ListingOf(k, n) ==
  [j \in 1..n |-> Instance(<<AllRegions[k], j>>, KindTags[((j + k - 2) % Len(KindTags)) + 1])]

\* the pages the paginator yields for a listing: at least one
PagesOf(listing) ==
  IF listing = <<>>
  THEN << <<>> >>
  ELSE [p \in 1..((Len(listing) + PageSize - 1) \div PageSize) |->
          SubSeq(listing, (p - 1) * PageSize + 1, Min(p * PageSize, Len(listing)))]

RegionIndex(r) == CHOOSE k \in 1..Len(AllRegions) : AllRegions[k] = r

-----------------------------------------------------------------------------
(* process_region: the Region Worker *)

RECURSIVE ids_with_action_reversed(_, _, _)
\* a plausible slip: the identifiers are put in front, not appended
ids_with_action_reversed(instances, current_time, action) ==
  IF instances = <<>>
  THEN <<>>
  ELSE LET rest == ids_with_action_reversed(Tail(instances), current_time, action)
       IN IF evaluate_instance(Head(instances), current_time)[1] = action
          THEN rest \o <<Head(instances).InstanceId>>
          ELSE rest

RECURSIVE ids_with_action(_, _, _)
\* the loop's appends: the InstanceIds decided `action`, in listing order
ids_with_action(instances, current_time, action) ==
  IF instances = <<>>
  THEN <<>>
  ELSE LET rest == ids_with_action(Tail(instances), current_time, action)
       IN IF evaluate_instance(Head(instances), current_time)[1] = action
          THEN <<Head(instances).InstanceId>> \o rest
          ELSE rest

\* what process_region returns, given the instances get_instances_in_region
\* returned with the region's client
region_result(region, instances, current_time) ==
  [ start_instances |-> ids_with_action(instances, current_time, "start"),
    stop_instances |-> ids_with_action(instances, current_time, "stop"),
    ec2_client |-> region,
    messages |-> [k \in 1..Len(instances) |->
                    evaluate_instance(instances[k], current_time)[2]] ]

\* the future of executor.submit(process_region, region, current_time)
NewWorker ==
  [ state |-> "pending",    \* pending, running, ok, failed
    page |-> 0,             \* pages fetched
    fetches |-> 0,          \* page fetches made, failed ones included
    instances |-> <<>>,     \* get_instances_in_region's instances
    result |-> <<>>,        \* what process_region returned
    collected |-> FALSE ]   \* as_completed has yielded it

Running(r) == workers[r].state = "running"

\* a plausible slip: the pool takes one thread more
read_pool_free_wide ==
  Cardinality({q \in DOMAIN workers : Running(q)}) < read_pool_size + 1

\* ThreadPoolExecutor(max_workers=10): a thread is idle or can be added
read_pool_free ==
  Cardinality({q \in DOMAIN workers : Running(q)}) < read_pool_size

\* the regions submitted before r: the list comprehension's order
SubmittedBefore(r) ==
  {regions[j] : j \in {k \in 1..Len(regions) : \E m \in (k + 1)..Len(regions) : regions[m] = r}}

\* a worker thread of the read pool takes the region: the work queue is
\* first in, first out
WorkerStart(r) ==
  /\ workers[r].state = "pending"
  /\ \A q \in SubmittedBefore(r) : workers[q].state # "pending"
  /\ read_pool_free
  /\ workers' = [workers EXCEPT ![r].state = "running"]
  /\ UNCHANGED <<evals, pc, describe, regions, now, fleet, results, sched,
                 joined, log, tasks, faults>>

\* the paginator fetches the next page
FetchPage(r) ==
  /\ Running(r)
  /\ workers[r].page < Len(fleet[r])
  /\ workers' = [workers EXCEPT ![r].page = @ + 1,
                                ![r].fetches = @ + 1,
                                ![r].instances = @ \o fleet[r][workers[r].page + 1]]
  /\ UNCHANGED <<evals, pc, describe, regions, now, fleet, results, sched,
                 joined, log, tasks, faults>>

\* a plausible slip: the failed page fetch is tried again
after_page_error_retry == "running"

\* nothing in get_instances_in_region or process_region catches the error:
\* the future holds it
after_page_error == "failed"

\* the page fetch raises: process_region raises
FetchPageFails(r) ==
  /\ Running(r)
  /\ workers[r].page < Len(fleet[r])
  /\ workers' = [workers EXCEPT ![r].fetches = @ + 1,
                                ![r].state = after_page_error]
  /\ UNCHANGED <<evals, pc, describe, regions, now, fleet, results, sched,
                 joined, log, tasks, faults>>

\* all pages fetched: evaluate, partition, return
WorkerReturn(r) ==
  /\ Running(r)
  /\ workers[r].page = Len(fleet[r])
  /\ workers' = [workers EXCEPT
       ![r].state = "ok",
       ![r].result = <<region_result(r, workers[r].instances, now)>>]
  /\ UNCHANGED <<evals, pc, describe, regions, now, fleet, results, sched,
                 joined, log, tasks, faults>>

-----------------------------------------------------------------------------
(* lambda_handler: the orchestrator *)

\* get_all_regions(): the regions that exist, in the service's order
get_all_regions ==
  SubSeq(AllRegions, 1, Cardinality(DOMAIN fleet))

\* get_all_regions() returns; current_time is taken; every region is submitted
DiscoverOk ==
  /\ pc = "discover"
  /\ describe' = Append(describe, "returned")
  /\ regions' = get_all_regions
  /\ \E t \in Times : now' = t
  /\ workers' = [r \in DOMAIN fleet |-> NewWorker]
  /\ pc' = "collect"
  /\ UNCHANGED <<evals, fleet, results, sched, joined, log, tasks, faults>>

\* a plausible slip: the failed enumeration is tried again
after_discovery_error_retry == "discover"

\* get_all_regions() raises and nothing catches it: lambda_handler raises
after_discovery_error == "raised"

DiscoverFails ==
  /\ pc = "discover"
  /\ describe' = Append(describe, "raised")
  /\ pc' = after_discovery_error
  /\ UNCHANGED <<evals, regions, now, fleet, workers, results, sched, joined,
                 log, tasks, faults>>

\* a plausible slip: the region's error is raised again
after_region_error_reraise == "raised"

\* except Exception as e: logger.error(...); the loop goes on
after_region_error == "collect"

\* as_completed yields a finished future of the read pool
Collect(r) ==
  /\ pc = "collect"
  /\ workers[r].state \in {"ok", "failed"}
  /\ ~workers[r].collected
  /\ workers' = [workers EXCEPT ![r].collected = TRUE]
  /\ IF workers[r].state = "ok"
     THEN /\ results' = Append(results, workers[r].result[1])
          /\ UNCHANGED <<log, pc>>
     ELSE /\ log' = Append(log, <<"error", "Error processing region ", r>>)
          /\ pc' = after_region_error
          /\ UNCHANGED results
  /\ UNCHANGED <<evals, describe, regions, now, fleet, sched, joined, tasks, faults>>

\* a plausible slip: the first pool is left while a worker is unfinished
read_phase_over_early ==
  \A r \in DOMAIN workers : workers[r].state \in {"ok", "failed"} => workers[r].collected

\* as_completed is exhausted and the with block has shut the pool down
read_phase_over ==
  \A r \in DOMAIN workers : workers[r].collected

LeaveReadPool ==
  /\ pc = "collect"
  /\ read_phase_over
  /\ pc' = "schedule"
  /\ UNCHANGED <<evals, describe, regions, now, fleet, workers, results, sched,
                 joined, log, tasks, faults>>

\* a plausible slip: a task is submitted for an empty list too
tasks_of_unguarded(result) ==
  <<NewTask(result.ec2_client, "start_instances", result.start_instances),
    NewTask(result.ec2_client, "stop_instances", result.stop_instances)>>

\* a plausible slip: the two lists go to each other's operation
tasks_of_swapped(result) ==
  (IF result.start_instances # <<>>
   THEN <<NewTask(result.ec2_client, "stop_instances", result.start_instances)>>
   ELSE <<>>)
  \o
  (IF result.stop_instances # <<>>
   THEN <<NewTask(result.ec2_client, "start_instances", result.stop_instances)>>
   ELSE <<>>)

\* the futures one entry of results adds
tasks_of(result) ==
  (IF result.start_instances # <<>>
   THEN <<NewTask(result.ec2_client, "start_instances", result.start_instances)>>
   ELSE <<>>)
  \o
  (IF result.stop_instances # <<>>
   THEN <<NewTask(result.ec2_client, "stop_instances", result.stop_instances)>>
   ELSE <<>>)

\* one round of the loop over results: log the messages, submit the tasks
Schedule ==
  /\ pc = "schedule"
  /\ sched < Len(results)
  /\ LET result == results[sched + 1] IN
     /\ log' = log \o [k \in 1..Len(result.messages) |-> <<"info", result.messages[k]>>]
     /\ tasks' = tasks \o tasks_of(result)
  /\ sched' = sched + 1
  /\ UNCHANGED <<evals, pc, describe, regions, now, fleet, workers, results,
                 joined, faults>>

\* the loop over results is over
BeginJoin ==
  /\ pc = "schedule"
  /\ sched = Len(results)
  /\ pc' = "join"
  /\ UNCHANGED <<evals, describe, regions, now, fleet, workers, results, sched,
                 joined, log, tasks, faults>>

\* a plausible slip: the batch's error is raised again
after_batch_error_reraise == "raised"

\* except Exception as e: logger.error(...); the loop goes on
after_batch_error == "join"

\* as_completed yields a finished future of the write pool
JoinOne(t) ==
  /\ pc = "join"
  /\ t \notin joined
  /\ tasks[t].state \in {"done", "failed"}
  /\ joined' = joined \cup {t}
  /\ IF tasks[t].state = "done"
     THEN UNCHANGED <<log, pc>>
     ELSE /\ log' = Append(log, <<"error", "Error executing batch operation: ", t>>)
          /\ pc' = after_batch_error
  /\ UNCHANGED <<evals, describe, regions, now, fleet, workers, results, sched,
                 tasks, faults>>

\* a plausible slip: the run returns once the finished tasks are seen
write_phase_over_early ==
  \A t \in 1..Len(tasks) : tasks[t].state \in {"done", "failed"} => t \in joined

\* as_completed is exhausted and the with block has shut the pool down
write_phase_over ==
  joined = 1..Len(tasks)

\* lambda_handler returns
Return ==
  /\ pc = "join"
  /\ write_phase_over
  /\ pc' = "done"
  /\ UNCHANGED <<evals, describe, regions, now, fleet, workers, results, sched,
                 joined, log, tasks, faults>>

\* the instances of every region that exists, before the run
Init ==
  /\ pc = "discover"
  /\ describe = <<>>
  /\ regions = <<>>
  /\ now = "unset"
  /\ \E n \in 0..Len(AllRegions) :
       \E size \in [1..n -> 0..MaxInst] :
         fleet = [r \in {AllRegions[k] : k \in 1..n} |->
                    PagesOf(ListingOf(RegionIndex(r), size[RegionIndex(r)]))]
  /\ workers = <<>>
  /\ results = <<>>
  /\ sched = 0
  /\ joined = {}
  /\ log = <<>>
  /\ evals = <<>>
  /\ tasks = <<>>
  /\ faults = 0

Next ==
  \/ DiscoverOk
  \/ DiscoverFails
  \/ \E r \in DOMAIN workers : WorkerStart(r)
  \/ \E r \in DOMAIN workers : FetchPage(r)
  \/ \E r \in DOMAIN workers : FetchPageFails(r)
  \/ \E r \in DOMAIN workers : WorkerReturn(r)
  \/ \E r \in DOMAIN workers : Collect(r)
  \/ LeaveReadPool
  \/ Schedule
  \/ BeginJoin
  \/ \E t \in 1..Len(tasks) : TaskStart(t)
  \/ \E t \in 1..Len(tasks) : CallIssue(t)
  \/ \E t \in 1..Len(tasks) : CallReturns(t)
  \/ \E t \in 1..Len(tasks) : CallRaises(t)
  \/ \E t \in 1..Len(tasks) : Wake(t)
  \/ \E t \in 1..Len(tasks) : JoinOne(t)
  \/ Return

Spec == Init /\ [][Next]_vars

\* the pools' threads run, remote calls and sleeps end
FairSpec == Spec /\ WF_vars(Next)

-----------------------------------------------------------------------------
(* SpecPool: the two pools with more work than threads.  The run is taken up
   after the regions were submitted to the read pool, or after the tasks were
   submitted to the write pool; the threads of the first MaxMovers workers and
   tasks run on, the other threads take their work item and are not scheduled
   again. *)

\* one region more than the read pool has threads
PoolRegions ==
  <<"us-east-1", "us-east-2", "us-west-1", "us-west-2", "eu-west-1", "eu-west-2",
    "eu-west-3", "eu-central-1", "eu-north-1", "ap-south-1", "sa-east-1">>

\* a region's instances: one to start, one to stop at the mid-year time
PoolListing(r) ==
  <<Instance(<<r, 1>>, KindTags[1]), Instance(<<r, 2>>, KindTags[2])>>

PoolFleet ==
  [r \in {PoolRegions[k] : k \in 1..Len(PoolRegions)} |-> PagesOf(PoolListing(r))]

\* RECURSIVE concatenation of a sequence of sequences
RECURSIVE Flatten(_)
Flatten(seqs) == IF seqs = <<>> THEN <<>> ELSE Head(seqs) \o Flatten(Tail(seqs))

\* lambda_handler after line 135: every region is submitted, none has started
InitPoolRead ==
  /\ pc = "collect"
  /\ describe = <<"returned">>
  /\ regions = PoolRegions
  /\ now \in Times
  /\ fleet = PoolFleet
  /\ workers = [r \in DOMAIN PoolFleet |-> NewWorker]
  /\ results = <<>>
  /\ sched = 0
  /\ joined = {}
  /\ log = <<>>
  /\ evals = <<>>
  /\ tasks = <<>>
  /\ faults = 0

\* lambda_handler after line 155: every region's worker returned, the tasks of
\* every result are submitted, none has started
InitPoolWrite ==
  /\ pc = "join"
  /\ describe = <<"returned">>
  /\ regions = PoolRegions
  /\ now = "06-15 12:30"
  /\ fleet = PoolFleet
  /\ workers = [r \in DOMAIN PoolFleet |->
       [ state |-> "ok", page |-> Len(PoolFleet[r]), fetches |-> Len(PoolFleet[r]),
         instances |-> PoolListing(r),
         result |-> <<region_result(r, PoolListing(r), now)>>,
         collected |-> TRUE ]]
  /\ results = [k \in 1..Len(PoolRegions) |->
                  region_result(PoolRegions[k], PoolListing(PoolRegions[k]), now)]
  /\ sched = Len(PoolRegions)
  /\ joined = {}
  /\ log = Flatten([k \in 1..Len(PoolRegions) |->
             [m \in 1..Len(results[k].messages) |-> <<"info", results[k].messages[m]>>]])
  /\ evals = <<>>
  /\ tasks = Flatten([k \in 1..Len(PoolRegions) |-> tasks_of(results[k])])
  /\ faults = 0

InitPool == InitPoolRead \/ InitPoolWrite

\* the workers and tasks whose threads run on
MovingRegions == {PoolRegions[k] : k \in 1..MaxMovers}
MovingTasks == 1..MaxMovers

NextPool ==
  \/ \E r \in DOMAIN workers : WorkerStart(r)
  \/ \E r \in MovingRegions : FetchPage(r)
  \/ \E r \in MovingRegions : FetchPageFails(r)
  \/ \E r \in MovingRegions : WorkerReturn(r)
  \/ \E t \in 1..Len(tasks) : TaskStart(t)
  \/ \E t \in MovingTasks \cap 1..Len(tasks) : CallIssue(t)
  \/ \E t \in MovingTasks \cap 1..Len(tasks) : CallReturns(t)
  \/ \E t \in MovingTasks \cap 1..Len(tasks) : CallRaises(t)
  \/ \E t \in MovingTasks \cap 1..Len(tasks) : Wake(t)

SpecPool == InitPool /\ [][NextPool]_vars

-----------------------------------------------------------------------------
(* Claims about evaluate_instance (SpecEval) *)

\* the values of the tag `key` in the instance's tag list
TagValues(instance, key) ==
  LET tl == IF "Tags" \in DOMAIN instance THEN instance.Tags ELSE <<>>
  IN {tl[i].Value : i \in {j \in 1..Len(tl) : tl[j].Key = key}}

\* the strings case-insensitively equal to "true"
TrueSpellings ==
  {<<a, b, c, d>> : a \in {"t", "T"}, b \in {"r", "R"}, c \in {"u", "U"}, d \in {"e", "E"}}

EnabledTrue(instance) ==
  \E v \in TagValues(instance, "WorksOnSchedule") : v \in TrueSpellings

\* the expression tag is there, not empty, and the validator answers `answer`
ExpressionIs(instance, answer) ==
  \E x \in TagValues(instance, "WorkingExpression") :
    x # "" /\ croniter_is_valid(x) = answer

ExpressionMissing(instance) ==
  TagValues(instance, "WorkingExpression") \subseteq {""}

Contains(message, piece) == \E i \in 1..Len(message) : message[i] = piece

\* C7: an instance whose WorksOnSchedule tag is absent, empty or not
\* case-insensitively "true" (whatever its expression), or whose
\* WorkingExpression tag is absent, empty or rejected by the validator, is
\* decided skip: evaluate_instance returns the action None with a message.
C7_PolicySkip ==
  \A n \in 1..Len(evals) :
    LET e == evals[n] IN
    ( \/ ~EnabledTrue(e.instance)
      \/ ExpressionMissing(e.instance)
      \/ ExpressionIs(e.instance, "False") )
    => /\ e.result[1] = None
       /\ Len(e.result[2]) > 0

\* a disabled instance with a valid, matching expression was evaluated
C7_Witness ==
  \E n \in 1..Len(evals) :
    /\ TagValues(evals[n].instance, "WorksOnSchedule") = {<<"f", "a", "l", "s", "e">>}
    /\ TagValues(evals[n].instance, "WorkingExpression") = {ExprEveryMinute}
    /\ evals[n].result[1] = None

\* C8: an enabled instance whose non-empty expression the validator rejects
\* is decided skip, and the reason holds the expression verbatim.
C8_InvalidQuoted ==
  \A n \in 1..Len(evals) :
    LET e == evals[n] IN
    (EnabledTrue(e.instance) /\ ExpressionIs(e.instance, "False"))
    => /\ e.result[1] = None
       /\ \A x \in TagValues(e.instance, "WorkingExpression") :
            Contains(e.result[2], x)

\* an enabled instance with a rejected expression was evaluated
C8_Witness ==
  \E n \in 1..Len(evals) :
    /\ EnabledTrue(evals[n].instance)
    /\ TagValues(evals[n].instance, "WorkingExpression") = {ExprBadField}
    /\ evals[n].result[1] = None

\* equal tags and equal now give equal decisions, whatever came before
Deterministic ==
  \A m, n \in 1..Len(evals) :
    (evals[m].instance = evals[n].instance /\ evals[m].now = evals[n].now)
    => evals[m].result = evals[n].result

-----------------------------------------------------------------------------
(* Claims about exponential_backoff and the Batch Mutators (SpecBatch) *)

RECURSIVE Concat(_)
Concat(seqs) == IF seqs = <<>> THEN <<>> ELSE Head(seqs) \o Concat(Tail(seqs))

\* ceil(n / 50)
CeilChunks(n) == (n + 49) \div 50

\* the loop offsets of a list of n identifiers: 0, 50, 100, ...
Offsets(n) == {i \in 0..n : i % 50 = 0 /\ i < n}

\* C1: every finished exponential_backoff either returned the response of
\* its attempt k+1 after exactly k < 5 failed attempts, or raised after
\* exactly 5 attempts that all failed, and what it raised is the error of
\* the 5th attempt, which its caller's future then holds.
C1_RetryOutcome ==
  \A t \in 1..Len(tasks) :
    LET T == tasks[t] IN
    /\ T.made = T.fails + (IF T.state = "calling" THEN 1 ELSE 0)
    /\ T.last # <<>> =>
         LET L == T.last[1] IN
         /\ L.outcome = "returned" =>
              /\ L.fails < 5
              /\ L.tries = L.fails + 1
              /\ L.value.response = "ok"
              /\ L.value.attempt = L.fails
         /\ L.outcome = "raised" =>
              /\ L.tries = 5
              /\ L.fails = 5
              /\ L.value.error = "ClientError"
              /\ L.value.attempt = 4
              /\ T.exc = <<L.value>>
              /\ T.state = "failed"
    /\ T.state = "failed" => (T.last # <<>> /\ T.last[1].outcome = "raised")

\* a call failed on all its attempts and the executor raised
C1_Witness ==
  \E t \in 1..Len(tasks) :
    /\ tasks[t].last # <<>>
    /\ tasks[t].last[1].outcome = "raised"
    /\ tasks[t].last[1].tries = 5

\* C2: a Batch Mutator that finished with no call failing issued exactly
\* ceil(N/50) mutating calls, each of at most 50 identifiers, and the chunks
\* in issue order make up the input list.
C2_Chunking ==
  \A t \in 1..Len(tasks) :
    LET T == tasks[t] IN
    (T.state = "done" /\ faults = 0) =>
      /\ Len(T.calls) = CeilChunks(Len(T.instance_ids))
      /\ \A c \in 1..Len(T.calls) : Len(T.calls[c]) <= 50
      /\ Concat(T.calls) = T.instance_ids

\* 120 identifiers went out as chunks of 50, 50 and 20
C2_Witness ==
  \E t \in 1..Len(tasks) :
    /\ tasks[t].state = "done"
    /\ faults = 0
    /\ Len(tasks[t].instance_ids) = 120
    /\ [c \in 1..Len(tasks[t].calls) |-> Len(tasks[t].calls[c])] = <<50, 50, 20>>

\* C10 as stated: when a Batch Mutator has ended, every chunk of its list
\* has been attempted at least once, also after a chunk ran out of retries.
C10_EveryChunkAttempted ==
  \A t \in 1..Len(tasks) :
    LET T == tasks[t] IN
    T.state \in {"done", "failed"} =>
      \A i \in Offsets(Len(T.instance_ids)) :
        \E c \in 1..Len(T.calls) :
          T.calls[c] = SubSeq(T.instance_ids, i + 1, Min(i + 50, Len(T.instance_ids)))

-----------------------------------------------------------------------------
(* Claims about the whole run (Spec, FairSpec) *)

\* the identifiers of region r's instances that are decided `action` at the
\* run's current_time, in listing order
Decided(r, action) ==
  LET listing == Concat(fleet[r])
      Test(instance) == evaluate_instance(instance, now)[1] = action
      chosen == SelectSeq(listing, Test)
  IN [k \in 1..Len(chosen) |-> chosen[k].InstanceId]

Submitted(r, func, ids) ==
  \E t \in 1..Len(tasks) :
    /\ tasks[t].client = r
    /\ tasks[t].func = func
    /\ tasks[t].instance_ids = ids

WorkerFailed(r) == workers[r].state = "failed"

\* C3: a Region Worker's failure never ends the run early (the run raises
\* only when discovery failed), and once the Mutate phase has scheduled its
\* tasks, every region whose worker succeeded has a start task for exactly
\* the identifiers decided start and a stop task for those decided stop.
C3_FailureIsolation ==
  /\ pc = "raised" => \A r \in DOMAIN workers : ~WorkerFailed(r)
  /\ (\A r \in DOMAIN workers : workers[r].collected) => pc # "collect" \/ ENABLED LeaveReadPool
  /\ pc \in {"join", "done"} =>
       \A r \in DOMAIN workers :
         workers[r].state = "ok" =>
           /\ Decided(r, "start") # <<>> =>
                Submitted(r, "start_instances", Decided(r, "start"))
           /\ Decided(r, "stop") # <<>> =>
                Submitted(r, "stop_instances", Decided(r, "stop"))

\* one region's worker failed, and the run ended after another region's
\* start call went out
C3_Witness ==
  /\ pc = "done"
  /\ \E b \in DOMAIN workers : WorkerFailed(b)
  /\ \E r \in DOMAIN workers :
       /\ workers[r].state = "ok"
       /\ Decided(r, "start") # <<>>
       /\ \E t \in 1..Len(tasks) :
            /\ tasks[t].client = r
            /\ tasks[t].func = "start_instances"
            /\ tasks[t].calls = <<Decided(r, "start")>>

\* C4: while any Region Worker is pending or running, no Batch Mutator task
\* has been submitted (so no mutating call issued) and the orchestrator is
\* still in its first pool.
C4_PhaseOrder ==
  (\E r \in DOMAIN workers : workers[r].state \in {"pending", "running"}) =>
    /\ tasks = <<>>
    /\ pc = "collect"

\* a mutating call has been issued after two workers finished
C4_Witness ==
  /\ Cardinality(DOMAIN workers) = 2
  /\ \E t \in 1..Len(tasks) : tasks[t].calls # <<>>

\* C5: once discovery has succeeded the run reaches its terminal state and
\* lambda_handler returns; it never raises after a successful discovery.
C5_RunCompletes ==
  /\ (pc = "collect") ~> (pc = "done")
  /\ [](describe = <<"returned">> => pc # "raised")

\* the run returned although a worker failed and a batch ran out of retries
C5_Witness ==
  /\ pc = "done"
  /\ \E b \in DOMAIN workers : WorkerFailed(b)
  /\ \E t \in 1..Len(tasks) : tasks[t].state = "failed"

\* C6: when the region enumeration fails, lambda_handler raises at once: the
\* call was made once, no Region Worker exists, no page was fetched, no task
\* was submitted and no mutating call issued.
C6_DiscoveryFatal ==
  (\E n \in 1..Len(describe) : describe[n] = "raised") =>
    /\ pc = "raised"
    /\ describe = <<"raised">>
    /\ regions = <<>>
    /\ DOMAIN workers = {}
    /\ results = <<>>
    /\ tasks = <<>>

\* discovery failed although regions with instances exist
C6_Witness ==
  /\ pc = "raised"
  /\ Cardinality(DOMAIN fleet) = 2
  /\ \A r \in DOMAIN fleet : Concat(fleet[r]) # <<>>

-----------------------------------------------------------------------------
(* Claims about the Mutate phase (Spec) *)

\* the error lines the orchestrator logged for task t
BatchErrorLines(t) ==
  {n \in 1..Len(log) : log[n] = <<"error", "Error executing batch operation: ", t>>}

\* the chunks of the task's list, in order
ChunksOf(ids) ==
  [c \in 1..CeilChunks(Len(ids)) |->
     SubSeq(ids, (c - 1) * 50 + 1, Min(c * 50, Len(ids)))]

\* the distinct chunks the task called, in the order of their first call
RECURSIVE Dedup(_)
Dedup(calls) ==
  IF Len(calls) <= 1 THEN calls
  ELSE LET front == Dedup(SubSeq(calls, 1, Len(calls) - 1))
       IN IF calls[Len(calls)] = calls[Len(calls) - 1]
          THEN front ELSE Append(front, calls[Len(calls)])

\* C11: a Batch Mutator task that ran out of retries is logged once by the
\* orchestrator and never makes the run raise; the run returns only when
\* every submitted task has finished and been collected, and every task that
\* did not fail itself has then called all its chunks, whatever happened to
\* the other tasks; a task that is ready to call is never held back.
C11_TaskIsolation ==
  /\ pc = "raised" => tasks = <<>>
  /\ \A t \in 1..Len(tasks) :
       /\ Cardinality(BatchErrorLines(t)) =
            IF t \in joined /\ tasks[t].state = "failed" THEN 1 ELSE 0
       /\ tasks[t].state = "running" => ENABLED CallIssue(t)
  /\ pc = "done" =>
       \A t \in 1..Len(tasks) :
         /\ t \in joined
         /\ tasks[t].state \in {"done", "failed"}
         /\ tasks[t].state = "done" =>
              Dedup(tasks[t].calls) = ChunksOf(tasks[t].instance_ids)

\* the run returned: the start task of a region ran out of retries, the stop
\* task of the same region and a task of the other region made their calls
C11_Witness ==
  /\ pc = "done"
  /\ \E t, u, v \in 1..Len(tasks) :
       /\ tasks[t].state = "failed"
       /\ tasks[u].state = "done" /\ tasks[u].client = tasks[t].client
       /\ tasks[v].state = "done" /\ tasks[v].client # tasks[t].client
       /\ tasks[u].calls # <<>> /\ tasks[v].calls # <<>>

-----------------------------------------------------------------------------
(* Claims about the backoff schedule (SpecBatch) *)

\* min(1 * 2^a, 32) seconds, in ms, for the attempts a = 0, 1, ...
ScheduleMs == <<1000, 2000, 4000, 8000, 16000, 32000, 32000>>

\* the warning lines of the failed attempts 0 .. n-1
Warnings(n) == [k \in 1..n |-> <<"warning", k - 1>>]

\* C14: after failed attempt a (counted from 0) that is not the last, the
\* failure is logged and the task sleeps min(1 * 2^a, 32) seconds plus a
\* jitter of 0 to 1 second before the next attempt; after the 5th failed
\* attempt "no more retries" is logged and there is no sleep; every failed
\* attempt is logged exactly once.
C14_BackoffSchedule ==
  \A t \in 1..Len(tasks) :
    LET T == tasks[t] IN
    /\ T.logged = Warnings(T.fails)
    /\ Len(T.delays) = T.fails
    /\ T.fails <= 4
    /\ T.state = "sleeping" =>
         /\ T.fails = T.attempt + 1
         /\ T.sleep - ScheduleMs[T.attempt + 1] \in 0..1000
         /\ T.delays[T.fails] = ScheduleMs[T.attempt + 1]
    /\ T.state # "sleeping" => T.sleep = 0
    /\ T.state \in {"running", "calling"} => T.fails = T.attempt
    /\ T.last # <<>> =>
         LET L == T.last[1] IN
         IF L.outcome = "raised"
         THEN /\ L.logged = Append(Warnings(4), <<"error", 4>>)
              /\ L.fails = 5
              /\ Len(L.delays) = 4
              /\ T.state = "failed"
         ELSE /\ L.logged = Warnings(L.fails)
              /\ Len(L.delays) = L.fails

\* the task sleeps 8 seconds plus a full second of jitter after its fourth
\* failed attempt
C14_Witness ==
  \E t \in 1..Len(tasks) :
    /\ tasks[t].state = "sleeping"
    /\ tasks[t].attempt = 3
    /\ tasks[t].sleep = 9000
    /\ tasks[t].logged = Warnings(4)

\* the number of the chunk that the task's c-th call carried
ChunkNo(T, c) ==
  CHOOSE k \in 1..CeilChunks(Len(T.instance_ids)) :
    ChunksOf(T.instance_ids)[k] = T.calls[c]

\* C16: within one Batch Mutator at most one mutating call is in flight; the
\* calls go out in increasing chunk order, a call carries the chunk of the
\* call before it (a retry) or the next chunk, and the next chunk only once
\* the attempts and sleeps of the chunk before it are over; the Batch
\* Mutators of different regions or actions have calls in flight together.
C16_ChunkSequencing ==
  \A t \in 1..Len(tasks) :
    LET T == tasks[t] IN
    /\ Len(T.calls) - T.answered = IF T.state = "calling" THEN 1 ELSE 0
    /\ T.calls # <<>> => ChunkNo(T, 1) = 1
    /\ \A c \in 1..(Len(T.calls) - 1) :
         \/ ChunkNo(T, c + 1) = ChunkNo(T, c)
         \/ ChunkNo(T, c + 1) = ChunkNo(T, c) + 1
    /\ T.state \in {"calling", "sleeping"} =>
         ChunkNo(T, Len(T.calls)) = (T.i \div 50) + 1
    /\ T.state = "running" /\ T.attempt > 0 =>
         ChunkNo(T, Len(T.calls)) = (T.i \div 50) + 1
    /\ T.state = "running" /\ T.attempt = 0 /\ T.calls # <<>> =>
         /\ ChunkNo(T, Len(T.calls)) = T.i \div 50
         /\ T.last # <<>> /\ T.last[1].outcome = "returned"

\* two Batch Mutators have a call in flight at the same time: one retries
\* its second chunk after a sleep, the other is at its first chunk
C16_Witness ==
  \E t, u \in 1..Len(tasks) :
    /\ tasks[t].client # tasks[u].client
    /\ tasks[t].state = "calling" /\ tasks[u].state = "calling"
    /\ tasks[t].i = 50 /\ tasks[t].attempt = 1
    /\ tasks[u].i = 0

RECURSIVE Sum(_)
Sum(seq) == IF seq = <<>> THEN 0 ELSE Head(seq) + Sum(Tail(seq))

\* C15 as stated: a call that always fails is abandoned after 5 attempts with
\* a total backoff delay, jitter excluded, of 1+2+4+8+16+32 = 63 seconds, the
\* last delay being the 32 second cap.
C15_Original ==
  \A t \in 1..Len(tasks) :
    tasks[t].last # <<>> /\ tasks[t].last[1].outcome = "raised" =>
      LET L == tasks[t].last[1] IN
      /\ L.tries = 5
      /\ Sum(L.delays) = 63000
      /\ L.delays[Len(L.delays)] = 32000

\* C15: a call that always fails is abandoned after 5 attempts and 4 sleeps
\* with a total backoff delay, jitter excluded, of 1+2+4+8 = 15 seconds; the
\* last delay is 8 seconds and no delay ever reaches the 32 second cap.
C15_WorstCaseBackoff ==
  \A t \in 1..Len(tasks) :
    /\ \A k \in 1..Len(tasks[t].delays) : tasks[t].delays[k] < 32000
    /\ tasks[t].last # <<>> /\ tasks[t].last[1].outcome = "raised" =>
         LET L == tasks[t].last[1] IN
         /\ L.tries = 5
         /\ L.delays = <<1000, 2000, 4000, 8000>>
         /\ Sum(L.delays) = 15000
         /\ L.delays[Len(L.delays)] = 8000

\* the second chunk of a list was abandoned after 5 failed attempts
C15_Witness ==
  \E t \in 1..Len(tasks) :
    /\ tasks[t].state = "failed"
    /\ tasks[t].i = 50
    /\ tasks[t].last[1].outcome = "raised"
    /\ Len(tasks[t].calls) = 6

-----------------------------------------------------------------------------
(* Claims about the pools (SpecPool) *)

\* C12: at most 10 Region Workers execute at the same time, at most 20 Batch
\* Mutator tasks execute at the same time, whatever the number of regions;
\* no Region Worker executes while a task exists.
C12_BoundedConcurrency ==
  /\ Cardinality({r \in DOMAIN workers : Running(r)}) <= 10
  /\ Cardinality({t \in 1..Len(tasks) : Active(t)}) <= 20
  /\ tasks # <<>> => \A r \in DOMAIN workers : ~Running(r)

\* 22 tasks were submitted: 20 of them hold a thread and one of these is
\* calling, the last two wait in the queue
C12_Witness ==
  /\ Len(tasks) = 22
  /\ Cardinality({t \in 1..Len(tasks) : Active(t)}) = 20
  /\ \E t \in 1..Len(tasks) : tasks[t].state = "calling"
  /\ tasks[21].state = "pending" /\ tasks[22].state = "pending"

\* some thread of the write pool takes a task
StartSome == \E t \in 1..Len(tasks) : TaskStart(t)

\* C13 as stated: a backoff sleep blocks only the task that sleeps, never the
\* pool: while tasks sleep in backoff, a task that waits in the queue can
\* start as long as fewer than 20 tasks are at work, the sleeping ones not
\* counted.
C13_SleepBlocksOnlyItsTask ==
  ( /\ \E t \in 1..Len(tasks) : tasks[t].state = "sleeping"
    /\ \E u \in 1..Len(tasks) : tasks[u].state = "pending"
    /\ Cardinality({t \in 1..Len(tasks) : tasks[t].state \in {"running", "calling"}}) < 20 )
  => ENABLED StartSome

-----------------------------------------------------------------------------
(* Claims about what is scheduled and called (Spec) *)

\* the tasks submitted for region r and the operation func
TasksFor(r, func) ==
  {t \in 1..Len(tasks) : tasks[t].client = r /\ tasks[t].func = func}

\* the decision an operation carries out
ActionOf(func) == IF func = "start_instances" THEN "start" ELSE "stop"

\* the elements of a sequence
Range(seq) == {seq[k] : k \in 1..Len(seq)}

\* the start set or stop set a region's worker returned; none if it failed
SetOf(r, func) ==
  IF workers[r].state # "ok" THEN <<>>
  ELSE IF func = "start_instances"
  THEN workers[r].result[1].start_instances
  ELSE workers[r].result[1].stop_instances

\* C17: every task belongs to a region whose worker succeeded and carries
\* that region's non-empty start set or stop set; once the Mutate phase has
\* scheduled its tasks, a succeeded region has exactly one task per non-empty
\* set and none for an empty set, and a failed region has no task at all, so
\* no mutating call.
C17_MutateScheduling ==
  /\ \A t \in 1..Len(tasks) :
       /\ tasks[t].client \in DOMAIN workers
       /\ workers[tasks[t].client].state = "ok"
       /\ tasks[t].instance_ids # <<>>
       /\ tasks[t].instance_ids = SetOf(tasks[t].client, tasks[t].func)
  /\ \A r \in DOMAIN workers : \A func \in {"start_instances", "stop_instances"} :
       /\ Cardinality(TasksFor(r, func)) <= 1
       /\ pc \in {"join", "done"} =>
            Cardinality(TasksFor(r, func)) =
              IF SetOf(r, func) # <<>> THEN 1 ELSE 0

\* the run returned: one region got its start task and, having nothing to
\* stop, no stop task; the other region's worker failed and got no task
\* although an instance of it was due to start
C17_Witness ==
  /\ pc = "done"
  /\ \E r, b \in DOMAIN workers :
       /\ workers[r].state = "ok"
       /\ Cardinality(TasksFor(r, "start_instances")) = 1
       /\ Decided(r, "stop") = <<>>
       /\ TasksFor(r, "stop_instances") = {}
       /\ WorkerFailed(b)
       /\ Decided(b, "start") # <<>>
       /\ TasksFor(b, "start_instances") = {}

\* the identifiers of the listed instances whose decision is `action`, in
\* listing order, given the decision of each
Chosen(listing, decision, action) ==
  LET Is(k) == decision[k][1] = action
      at == SelectSeq([k \in 1..Len(listing) |-> k], Is)
  IN [j \in 1..Len(at) |-> listing[at[j]].InstanceId]

\* what C18 asks of the result R of region r, given the region's listing and
\* the decision and message of each listed instance
PartitionOf(r, R, listing, decision) ==
  /\ R.ec2_client = r
  /\ R.start_instances = Chosen(listing, decision, "start")
  /\ R.stop_instances = Chosen(listing, decision, "stop")
  /\ Range(R.start_instances) \cap Range(R.stop_instances) = {}
  /\ \A k \in 1..Len(listing) :
       decision[k][1] \notin {"start", "stop"} =>
         listing[k].InstanceId \notin
           Range(R.start_instances) \cup Range(R.stop_instances)
  /\ R.messages = [k \in 1..Len(listing) |-> decision[k][2]]

\* C18: a Region Worker that returns gives as its start list the
\* identifiers of the listed instances decided start and as its stop list
\* those decided stop, each in listing order; an instance decided skip is in
\* neither list; there is exactly one message per listed instance, in
\* listing order.  What it returned stays as it is, as do the listing and
\* the run's current_time.
C18_RegionPartition ==
  [][\A r \in DOMAIN workers' :
       workers'[r].state = "ok" =>
         IF r \in DOMAIN workers /\ workers[r].state = "ok"
         THEN /\ workers'[r].result = workers[r].result
              /\ fleet' = fleet
              /\ now' = now
         ELSE /\ workers'[r].instances = Concat(fleet'[r])
              /\ PartitionOf(r, workers'[r].result[1], workers'[r].instances,
                             [k \in 1..Len(workers'[r].instances) |->
                                evaluate_instance(workers'[r].instances[k], now')])]_vars

\* one worker returned a start list and a stop list, another a stop list
\* with a skipped instance left out
C18_Witness ==
  \E r, q \in DOMAIN workers :
    /\ workers[r].state = "ok" /\ workers[q].state = "ok"
    /\ workers[r].result[1].start_instances # <<>>
    /\ workers[r].result[1].stop_instances # <<>>
    /\ workers[q].result[1].stop_instances # <<>>
    /\ Len(workers[q].result[1].messages) = 2
    /\ Len(workers[q].result[1].stop_instances) = 1
    /\ workers[q].result[1].start_instances = <<>>

\* what C19 asks of a call of `func` on the client of region `client` that
\* carries the identifiers `carried`, given the listing of the region and
\* the instances of the other regions
CallOk(client, func, carried, listing, foreign) ==
  \A id \in carried :
    /\ id[1] = client
    /\ \E n \in 1..Len(listing) :
         /\ listing[n].InstanceId = id
         /\ evaluate_instance(listing[n], now)[1] = ActionOf(func)
    /\ \A other \in foreign : other.InstanceId # id

\* the calls task t had issued before the step
CallsBefore(t) == IF t <= Len(tasks) THEN tasks[t].calls ELSE <<>>

\* C19: every identifier a start call carries on a region's client is the
\* identifier of an instance listed in that region and decided start, and
\* likewise for stop; an instance decided skip is in no mutating call; no
\* region's client carries an identifier of another region.  Calls are only
\* ever added, one at a time.
C19_FailClosed ==
  [][\A t \in 1..Len(tasks') :
       \/ tasks'[t].calls = CallsBefore(t)
       \/ /\ Len(tasks'[t].calls) = Len(CallsBefore(t)) + 1
          /\ SubSeq(tasks'[t].calls, 1, Len(CallsBefore(t))) = CallsBefore(t)
          /\ CallOk(tasks'[t].client, tasks'[t].func,
                    Range(tasks'[t].calls[Len(tasks'[t].calls)]),
                    Concat(fleet[tasks'[t].client]),
                    UNION {Range(Concat(fleet[q])) :
                             q \in DOMAIN fleet \ {tasks'[t].client}})]_vars

\* a start call and a stop call went out in a run that has a skipped instance
C19_Witness ==
  /\ \E t, u \in 1..Len(tasks) :
       /\ tasks[t].func = "start_instances" /\ tasks[t].calls # <<>>
       /\ tasks[u].func = "stop_instances" /\ tasks[u].calls # <<>>
       /\ tasks[t].client # tasks[u].client
  /\ \E q \in DOMAIN fleet : \E n \in 1..Len(Concat(fleet[q])) :
       evaluate_instance(Concat(fleet[q])[n], now)[1] \notin {"start", "stop"}

\* the error lines the orchestrator logged for region r
RegionErrorLines(r) ==
  {n \in 1..Len(log) : log[n] = <<"error", "Error processing region ", r>>}

\* C20: each page of a region's listing is fetched at most once, and nothing
\* is fetched after a failed fetch; when a page fetch fails the worker fails
\* as a whole: it returns no result, the orchestrator logs the failure once
\* when it collects the worker and does not raise, and no task exists for
\* the region, so no instance of it is started or stopped, those on pages
\* already fetched included.
C20_ListingAllOrNothing ==
  \A r \in DOMAIN workers :
    LET W == workers[r] IN
    /\ W.fetches <= Len(fleet[r])
    /\ W.fetches = W.page + (IF W.state = "failed" THEN 1 ELSE 0)
    /\ W.state \in {"pending", "running", "ok", "failed"}
    /\ Cardinality(RegionErrorLines(r)) =
         IF W.state = "failed" /\ W.collected THEN 1 ELSE 0
    /\ W.state = "failed" =>
         /\ W.result = <<>>
         /\ \A n \in 1..Len(results) : results[n].ec2_client # r
         /\ \A t \in 1..Len(tasks) : tasks[t].client # r
         /\ pc # "raised"

\* the run returned: a region's second page fetch failed after its first page
\* had brought an instance due to start, and the other region was served
C20_Witness ==
  /\ pc = "done"
  /\ \E r \in DOMAIN workers :
       /\ WorkerFailed(r)
       /\ workers[r].page = 1
       /\ workers[r].fetches = 2
       /\ \E n \in 1..Len(workers[r].instances) :
            evaluate_instance(workers[r].instances[n], now)[1] = "start"
  /\ \E t \in 1..Len(tasks) : tasks[t].calls # <<>>

=============================================================================
